---- MODULE Spec2Model ----
(***************************************************************************)
(* Model of the ELSbot client (src/src/client/client_evaks.cpp): the run   *)
(* loop, updateState, decideMove / isValidMove and the bounded trail kept  *)
(* by sendMove.  The server behind cycles::Connection is the environment:  *)
(* it answers isActive() and hands out game states without restriction.    *)
(***************************************************************************)
EXTENDS Integers, Sequences, FiniteSets, TLC

\* ---------------------------------------------------------------- bounds
\* Largest direction code handed to the conversion functions.
MaxDirCode == 40
\* Width and height of the grid of the received game states.
GridW == 2
GridH == 2
\* Longest player list of a received game state.
MaxPlayers == 2
\* Number of game states the server hands out before the model stops.
MaxTicks == 4
\* ELSbot::MAX_TRAIL_SIZE (5000 in the source), scaled down so that the
\* capacity eviction happens within MaxTicks ticks.
MAX_TRAIL_SIZE == 2

\* ---------------------------------------------------------------- data
Cells == (0 .. GridW - 1) \X (0 .. GridH - 1)

Direction == {"north", "south", "east", "west"}

\* The bot's own name (argv[1]) and another player's.
name == "evaks"
Names == {name, "other"}

Player == [name : Names, position : Cells]

RECURSIVE SeqsUpTo(_, _)
SeqsUpTo(S, n) ==
    IF n = 0 THEN {<<>>}
    ELSE LET shorter == SeqsUpTo(S, n - 1)
         IN  shorter \cup {Append(s, x) : s \in {t \in shorter : Len(t) = n - 1}, x \in S}

PlayerLists == SeqsUpTo(Player, MaxPlayers)

VARIABLES
    pc,          \* position in run(): "loop", "update", "send", "record", "done", "exited";
                 \* in SpecConv "conv" before and "converted" after a conversion call
    active,      \* the last value connection.isActive() returned
    grid,        \* state: the occupied cells of the last received game state
    myPos,       \* myPlayer.position
    movingDown,  \* zigzag phase
    trail,       \* unordered_set of recorded positions
    trailQueue,  \* queue of recorded positions, oldest first
    lastMove,    \* the direction last passed to connection.sendMove ("none" before)
    exitStatus,  \* -1 while the process runs, else its exit status
    nrecv,       \* game states received so far
    nfound,      \* received game states in which the bot was found
    nsent,       \* moves sent so far
    selfPresent, \* whether the last received game state listed a player named like the bot
    recorded,    \* history: every position recorded in the trail, in order
    seen,        \* history kept in the game of SpecGame: the positions the bot had in received states
    convDir,     \* direction code handed to a conversion function
    convOut      \* what the conversion did with it

vars == <<pc, active, grid, myPos, movingDown, trail, trailQueue, lastMove,
          exitStatus, nrecv, nfound, nsent, selfPresent, recorded,
          seen, convDir, convOut>>

primaryDirection == "east"

\* ---------------------------------------------------------------- helpers
getDirectionVector(direction) ==
    CASE direction = "north" -> <<0, -1>>
      [] direction = "south" -> <<0, 1>>
      [] direction = "east"  -> <<1, 0>>
      [] direction = "west"  -> <<-1, 0>>

Plus(p, v) == <<p[1] + v[1], p[2] + v[2]>>

\* cycles::GameState queries (api.h): bounds and occupancy of a cell.
isInsideGrid(p) == p \in Cells

isCellEmpty(g, p) == p \notin g

isValidMove(pos, g, tr, direction) ==
    LET newPos == Plus(pos, getDirectionVector(direction))
    IN  IF ~isInsideGrid(newPos) THEN FALSE
        ELSE IF ~isCellEmpty(g, newPos) THEN FALSE
        ELSE IF newPos \in tr THEN FALSE
        ELSE TRUE

\* Faulty variants of the probe list: south left out; north probed before west.
alternatives_noSouth == <<"west", "north">>

alternatives_northFirst == <<"north", "west", "south">>

\* The alternative directions probed after the zigzag and primary directions.
alternatives == <<"west", "north", "south">>

\* Faulty variant of decideMove: the phase is also flipped when an
\* alternative direction is returned.
decideMove_toggleAlt(pos, g, tr, md) ==
    LET zigzagDirection == IF md THEN "south" ELSE "north"
        ok(d) == isValidMove(pos, g, tr, d)
        hits == {i \in 1 .. Len(alternatives) : ok(alternatives[i])}
    IN  IF ok(zigzagDirection)
            THEN [move |-> zigzagDirection, movingDown |-> md]
        ELSE IF ok(primaryDirection)
            THEN [move |-> primaryDirection, movingDown |-> ~md]
        ELSE IF hits # {}
            THEN [move |-> alternatives[CHOOSE i \in hits : \A j \in hits : i <= j],
                  movingDown |-> ~md]
        ELSE [move |-> primaryDirection, movingDown |-> md]

\* Faulty variant of decideMove: the phase is never flipped.
decideMove_noToggle(pos, g, tr, md) ==
    LET zigzagDirection == IF md THEN "south" ELSE "north"
        ok(d) == isValidMove(pos, g, tr, d)
        hits == {i \in 1 .. Len(alternatives) : ok(alternatives[i])}
    IN  IF ok(zigzagDirection)
            THEN [move |-> zigzagDirection, movingDown |-> md]
        ELSE IF ok(primaryDirection)
            THEN [move |-> primaryDirection, movingDown |-> md]
        ELSE IF hits # {}
            THEN [move |-> alternatives[CHOOSE i \in hits : \A j \in hits : i <= j],
                  movingDown |-> md]
        ELSE [move |-> primaryDirection, movingDown |-> md]

\* decideMove: the returned direction and the zigzag phase it leaves behind.
decideMove(pos, g, tr, md) ==
    LET zigzagDirection == IF md THEN "south" ELSE "north"
        ok(d) == isValidMove(pos, g, tr, d)
        hits == {i \in 1 .. Len(alternatives) : ok(alternatives[i])}
    IN  IF ok(zigzagDirection)
            THEN [move |-> zigzagDirection, movingDown |-> md]
        ELSE IF ok(primaryDirection)
            THEN [move |-> primaryDirection, movingDown |-> ~md]
        ELSE IF hits # {}
            THEN [move |-> alternatives[CHOOSE i \in hits : \A j \in hits : i <= j],
                  movingDown |-> md]
        ELSE [move |-> primaryDirection, movingDown |-> md]

\* updateState's search: index of the first player named like the bot, 0 if none.
findPlayer(players) ==
    LET idx == {i \in 1 .. Len(players) : players[i].name = name}
    IN  IF idx = {} THEN 0 ELSE CHOOSE i \in idx : \A j \in idx : i <= j

\* The outcome of a conversion that has not been called.
NoOutcome == [kind |-> "none", vec |-> <<>>, str |-> ""]

\* ---------------------------------------------------------------- actions
Init ==
    /\ pc = "loop"
    /\ active = TRUE
    /\ grid = {}
    /\ myPos = <<0, 0>>
    /\ movingDown = TRUE
    /\ trail = {}
    /\ trailQueue = <<>>
    /\ lastMove = "none"
    /\ exitStatus = -1
    /\ nrecv = 0
    /\ nfound = 0
    /\ nsent = 0
    /\ selfPresent = FALSE
    /\ recorded = <<>>
    /\ seen = {}
    /\ convDir = 0
    /\ convOut = NoOutcome

\* Faulty variant of run(): the loop condition is inverted.
RunLoop_inverted ==
    /\ pc = "loop"
    /\ UNCHANGED <<seen, convDir, convOut>>
    /\ nrecv < MaxTicks
    /\ \E a \in BOOLEAN :
         /\ active' = a
         /\ IF ~a THEN pc' = "update" /\ exitStatus' = exitStatus
                  ELSE pc' = "done" /\ exitStatus' = 0
    /\ UNCHANGED <<grid, myPos, movingDown, trail, trailQueue, lastMove,
                   nrecv, nfound, nsent, selfPresent, recorded>>

\* Faulty variant of run(): sendMove() is called without updateState().
RunLoop_sendFirst ==
    /\ pc = "loop"
    /\ UNCHANGED <<seen, convDir, convOut>>
    /\ nrecv < MaxTicks
    /\ \E a \in BOOLEAN :
         /\ active' = a
         /\ IF a THEN pc' = "send" /\ exitStatus' = exitStatus
                 ELSE pc' = "done" /\ exitStatus' = 0
    /\ UNCHANGED <<grid, myPos, movingDown, trail, trailQueue, lastMove,
                   nrecv, nfound, nsent, selfPresent, recorded>>

\* run(): the loop condition connection.isActive(); on false run() returns
\* and main returns 0.
RunLoop ==
    /\ pc = "loop"
    /\ UNCHANGED <<seen, convDir, convOut>>
    /\ nrecv < MaxTicks
    /\ \E a \in BOOLEAN :
         /\ active' = a
         /\ IF a THEN pc' = "update" /\ exitStatus' = exitStatus
                 ELSE pc' = "done" /\ exitStatus' = 0
    /\ UNCHANGED <<grid, myPos, movingDown, trail, trailQueue, lastMove,
                   nrecv, nfound, nsent, selfPresent, recorded>>

\* Faulty variant of updateState(): a state without the bot is not an
\* error, the tick goes on with the last known position.
UpdateState_swallow ==
    /\ pc = "update"
    /\ UNCHANGED <<seen, convDir, convOut>>
    /\ \E g \in SUBSET Cells, players \in PlayerLists :
         LET i == findPlayer(players)
         IN  /\ grid' = g
             /\ selfPresent' = (\E k \in 1 .. Len(players) : players[k].name = name)
             /\ nrecv' = nrecv + 1
             /\ myPos' = IF i # 0 THEN players[i].position ELSE myPos
             /\ nfound' = IF i # 0 THEN nfound + 1 ELSE nfound
             /\ pc' = "send"
             /\ exitStatus' = exitStatus
    /\ UNCHANGED <<active, movingDown, trail, trailQueue, lastMove, nsent, recorded>>

\* updateState(): receive a game state and locate the bot in it; a state
\* without the bot throws, and run() answers the exception with exit(1).
UpdateState ==
    /\ pc = "update"
    /\ UNCHANGED <<seen, convDir, convOut>>
    /\ \E g \in SUBSET Cells, players \in PlayerLists :
         LET i == findPlayer(players)
         IN  /\ grid' = g
             /\ selfPresent' = (\E k \in 1 .. Len(players) : players[k].name = name)
             /\ nrecv' = nrecv + 1
             /\ IF i # 0
                   THEN /\ myPos' = players[i].position
                        /\ nfound' = nfound + 1
                        /\ pc' = "send"
                        /\ exitStatus' = exitStatus
                   ELSE /\ myPos' = myPos
                        /\ nfound' = nfound
                        /\ pc' = "exited"
                        /\ exitStatus' = 1
    /\ UNCHANGED <<active, movingDown, trail, trailQueue, lastMove, nsent, recorded>>

\* sendMove(), first half: decideMove() and connection.sendMove(move).
SendMove ==
    /\ pc = "send"
    /\ UNCHANGED <<seen, convDir, convOut>>
    /\ LET d == decideMove(myPos, grid, trail, movingDown)
       IN  /\ lastMove' = d.move
           /\ movingDown' = d.movingDown
    /\ nsent' = nsent + 1
    /\ pc' = "record"
    /\ UNCHANGED <<active, grid, myPos, trail, trailQueue, exitStatus,
                   nrecv, nfound, selfPresent, recorded>>

\* Faulty variant of the record step: the capacity test is off by one.
RecordTrail_offByOne ==
    /\ pc = "record"
    /\ UNCHANGED <<seen, convDir, convOut>>
    /\ LET newPos == Plus(myPos, getDirectionVector(lastMove))
           pushed == Append(trailQueue, newPos)
           inserted == trail \cup {newPos}
       IN  /\ recorded' = Append(recorded, newPos)
           /\ IF Len(pushed) > MAX_TRAIL_SIZE + 1
                 THEN /\ trailQueue' = Tail(pushed)
                      /\ trail' = inserted \ {Head(pushed)}
                 ELSE /\ trailQueue' = pushed
                      /\ trail' = inserted
    /\ pc' = "loop"
    /\ UNCHANGED <<active, grid, myPos, movingDown, lastMove, exitStatus,
                   nrecv, nfound, nsent, selfPresent>>

\* Faulty variant of the record step: the newest entry is evicted, not the oldest.
RecordTrail_evictNewest ==
    /\ pc = "record"
    /\ UNCHANGED <<seen, convDir, convOut>>
    /\ LET newPos == Plus(myPos, getDirectionVector(lastMove))
           pushed == Append(trailQueue, newPos)
           inserted == trail \cup {newPos}
       IN  /\ recorded' = Append(recorded, newPos)
           /\ IF Len(pushed) > MAX_TRAIL_SIZE
                 THEN /\ trailQueue' = trailQueue
                      /\ trail' = inserted \ {newPos}
                 ELSE /\ trailQueue' = pushed
                      /\ trail' = inserted
    /\ pc' = "loop"
    /\ UNCHANGED <<active, grid, myPos, movingDown, lastMove, exitStatus,
                   nrecv, nfound, nsent, selfPresent>>

\* Faulty variant of the record step: a trail over capacity is started afresh.
RecordTrail_clearOnFull ==
    /\ pc = "record"
    /\ UNCHANGED <<seen, convDir, convOut>>
    /\ LET newPos == Plus(myPos, getDirectionVector(lastMove))
           pushed == Append(trailQueue, newPos)
           inserted == trail \cup {newPos}
       IN  /\ recorded' = Append(recorded, newPos)
           /\ IF Len(pushed) > MAX_TRAIL_SIZE
                 THEN /\ trailQueue' = <<newPos>>
                      /\ trail' = {newPos}
                 ELSE /\ trailQueue' = pushed
                      /\ trail' = inserted
    /\ pc' = "loop"
    /\ UNCHANGED <<active, grid, myPos, movingDown, lastMove, exitStatus,
                   nrecv, nfound, nsent, selfPresent>>

\* sendMove(), second half: record the destination of the sent move and
\* evict the oldest entry when the queue is over capacity.
RecordTrail ==
    /\ pc = "record"
    /\ UNCHANGED <<seen, convDir, convOut>>
    /\ LET newPos == Plus(myPos, getDirectionVector(lastMove))
           pushed == Append(trailQueue, newPos)
           inserted == trail \cup {newPos}
       IN  /\ recorded' = Append(recorded, newPos)
           /\ IF Len(pushed) > MAX_TRAIL_SIZE
                 THEN /\ trailQueue' = Tail(pushed)
                      /\ trail' = inserted \ {Head(pushed)}
                 ELSE /\ trailQueue' = pushed
                      /\ trail' = inserted
    /\ pc' = "loop"
    /\ UNCHANGED <<active, grid, myPos, movingDown, lastMove, exitStatus,
                   nrecv, nfound, nsent, selfPresent>>

Next == RunLoop \/ UpdateState \/ SendMove \/ RecordTrail

Spec == Init /\ [][Next]_vars

\* ---------------------------------------------------------------- conversions
\* The codes a cycles::Direction variable can hold; the codes past the four
\* enumerators are the invalid directions.
DirCodes == 0 .. MaxDirCode

DirectionOfCode(code) ==
    CASE code = 0 -> "north"
      [] code = 1 -> "east"
      [] code = 2 -> "south"
      [] code = 3 -> "west"
      [] OTHER -> "invalid"

\* getDirectionVector with its default branch: the vector, or the
\* BotException it throws.
getDirectionVectorOutcome(direction) ==
    IF direction \in Direction
        THEN [kind |-> "return", vec |-> getDirectionVector(direction), str |-> ""]
        ELSE [kind |-> "throw", vec |-> <<>>, str |-> "Invalid direction encountered"]

directionToString(dir) ==
    CASE dir = "north" -> "NORTH"
      [] dir = "south" -> "SOUTH"
      [] dir = "east"  -> "EAST"
      [] dir = "west"  -> "WEST"
      [] OTHER -> "UNKNOWN"

InitConv ==
    /\ pc = "conv"
    /\ active = TRUE
    /\ grid = {}
    /\ myPos = <<0, 0>>
    /\ movingDown = TRUE
    /\ trail = {}
    /\ trailQueue = <<>>
    /\ lastMove = "none"
    /\ exitStatus = -1
    /\ nrecv = 0
    /\ nfound = 0
    /\ nsent = 0
    /\ selfPresent = FALSE
    /\ recorded = <<>>
    /\ seen = {}
    /\ convDir \in DirCodes
    /\ convOut = NoOutcome

\* A call of getDirectionVector inside run(): the exception it throws
\* travels up to run(), which ends the process with exit(1).
CallGetDirectionVector ==
    /\ pc = "conv"
    /\ LET out == getDirectionVectorOutcome(DirectionOfCode(convDir))
       IN  /\ convOut' = out
           /\ IF out.kind = "throw"
                 THEN pc' = "exited" /\ exitStatus' = 1
                 ELSE pc' = "converted" /\ exitStatus' = exitStatus
    /\ UNCHANGED <<active, grid, myPos, movingDown, trail, trailQueue, lastMove,
                   nrecv, nfound, nsent, selfPresent, recorded, seen, convDir>>

\* A call of directionToString inside run(): it always returns.
CallDirectionToString ==
    /\ pc = "conv"
    /\ convOut' = [kind |-> "return", vec |-> <<>>,
                   str |-> directionToString(DirectionOfCode(convDir))]
    /\ pc' = "converted"
    /\ UNCHANGED <<active, grid, myPos, movingDown, trail, trailQueue, lastMove,
                   exitStatus, nrecv, nfound, nsent, selfPresent, recorded,
                   seen, convDir>>

NextConv == CallGetDirectionVector \/ CallDirectionToString

SpecConv == InitConv /\ [][NextConv]_vars

\* ---------------------------------------------------------------- the game
\* The server of the game: the bot is moved one cell in the sent direction
\* when that cell is inside the grid and empty, and stays where it is
\* otherwise.
ServerPosition(pos, g, move) ==
    LET dest == Plus(pos, getDirectionVector(move))
    IN  IF dest \in Cells /\ dest \notin g THEN dest ELSE pos

\* Where the next game state may show the bot: anywhere at the start of the
\* game, afterwards where the server put it.
ServerPositions ==
    IF nsent = 0 THEN Cells ELSE {ServerPosition(myPos, grid, lastMove)}

\* updateState() in the game: the same code, fed by that server.
UpdateStateGame ==
    /\ pc = "update"
    /\ UNCHANGED <<convDir, convOut>>
    /\ \E g \in SUBSET Cells, players \in PlayerLists :
         LET i == findPlayer(players)
         IN  /\ \A k \in 1 .. Len(players) :
                  players[k].name = name => players[k].position \in ServerPositions
             /\ grid' = g
             /\ selfPresent' = (\E k \in 1 .. Len(players) : players[k].name = name)
             /\ nrecv' = nrecv + 1
             /\ IF i # 0
                   THEN /\ myPos' = players[i].position
                        /\ seen' = seen \cup {players[i].position}
                        /\ nfound' = nfound + 1
                        /\ pc' = "send"
                        /\ exitStatus' = exitStatus
                   ELSE /\ myPos' = myPos
                        /\ seen' = seen
                        /\ nfound' = nfound
                        /\ pc' = "exited"
                        /\ exitStatus' = 1
    /\ UNCHANGED <<active, movingDown, trail, trailQueue, lastMove, nsent, recorded>>

NextGame == RunLoop \/ UpdateStateGame \/ SendMove \/ RecordTrail

SpecGame == Init /\ [][NextGame]_vars

\* ---------------------------------------------------------------- properties
\* A direction is valid in the current state of the bot.
Valid(d) == isValidMove(myPos, grid, trail, d)

AnyValid == \E d \in Direction : Valid(d)

\* The zigzag direction of a phase.
Zigzag(md) == IF md THEN "south" ELSE "north"

\* C1: whenever at least one of the four directions is valid, the direction
\* decideMove returned is valid; an invalid direction is returned only when
\* all four are invalid.  (Position, grid and trail are the same in the
\* state after the decision as they were when it was taken.)
C1_ReturnsValid ==
    pc = "record" => (AnyValid => Valid(lastMove))

\* A decision that had to go past the zigzag and primary directions.
C1_Witness ==
    /\ pc = "record"
    /\ lastMove = "west"
    /\ Valid("west")
    /\ trail # {}
    /\ grid # {}

\* The reference of C2: the first valid candidate of the order zigzag, east,
\* west, the other vertical direction.
RefCandidates(md) == <<Zigzag(md), "east", "west", Zigzag(~md)>>

RefFirstValid(pos, g, tr, md) ==
    LET c == RefCandidates(md)
        v == {i \in 1 .. 4 : isValidMove(pos, g, tr, c[i])}
    IN  c[CHOOSE i \in v : \A j \in v : i <= j]

\* C2: when some direction is valid, the move sent in a tick is the first
\* valid candidate of the order zigzag, east, west, other vertical: the
\* probe sequence zigzag, east, west, north, south agrees with that
\* four-candidate reference.
C2_FirstValidInOrder ==
    [][(pc = "send" /\ AnyValid)
         => lastMove' = RefFirstValid(myPos, grid, trail, movingDown)]_vars

\* The fourth candidate won: north returned in the south phase.
C2_Witness ==
    /\ pc = "record"
    /\ movingDown
    /\ lastMove = "north"
    /\ Valid("north")

\* East is the chosen candidate of the decision taken in the current state.
EastChosen == ~Valid(Zigzag(movingDown)) /\ Valid("east")

\* C3: the phase is flipped in a step exactly when that step is the
\* decision of a tick in which east is the chosen candidate (zigzag
\* direction invalid, east valid); every other step of the program, and
\* every decision that returns south, north or west, leaves it as it was.
C3_ToggleOnlyOnEast ==
    [][/\ (movingDown' # movingDown) <=> (pc = "send" /\ EastChosen)
       /\ (pc = "send" /\ EastChosen) => lastMove' = "east"
       /\ (pc = "send" /\ lastMove' \in {"south", "north", "west"})
            => movingDown' = movingDown]_vars

\* East was chosen and the phase is north now.
C3_Witness ==
    /\ pc = "record"
    /\ lastMove = "east"
    /\ Valid("east")
    /\ ~movingDown
    /\ nsent > 1

\* C4 as claimed: in every tick in which east is sent, the phase after the
\* tick is the negation of the phase before it.
C4_Claimed ==
    [][(pc = "send" /\ lastMove' = "east") => movingDown' = ~movingDown]_vars

\* C4 as amended: when east is sent as the chosen candidate (zigzag
\* direction invalid, east valid) the phase is negated; when east is sent
\* as the fallback (all four directions invalid) the phase is unchanged.
C4_Amended ==
    [][(pc = "send" /\ lastMove' = "east")
         => /\ EastChosen => movingDown' = ~movingDown
            /\ ~AnyValid => movingDown' = movingDown
            /\ EastChosen \/ ~AnyValid]_vars

\* East was sent as the fallback: every direction is invalid.
C4_Witness ==
    /\ pc = "record"
    /\ lastMove = "east"
    /\ ~AnyValid

\* C5: the order queue and the membership set never hold more than
\* MAX_TRAIL_SIZE entries.
C5_TrailBounded ==
    /\ Len(trailQueue) <= MAX_TRAIL_SIZE
    /\ Cardinality(trail) <= MAX_TRAIL_SIZE

\* The trail is full and an eviction has happened.
C5_Witness ==
    /\ pc = "loop"
    /\ Len(recorded) > MAX_TRAIL_SIZE
    /\ Len(trailQueue) = MAX_TRAIL_SIZE
    /\ Cardinality(trail) = MAX_TRAIL_SIZE

\* The positions of a sequence are pairwise distinct.
Distinct(q) == \A i, j \in 1 .. Len(q) : i # j => q[i] # q[j]

\* C6: eviction is strict FIFO.  When the recorded positions are pairwise
\* distinct and MAX_TRAIL_SIZE + k of them (k >= 1) have been recorded,
\* exactly the k earliest are not members of the trail and the
\* MAX_TRAIL_SIZE most recent all are.
C6_FifoEviction ==
    (Distinct(recorded) /\ Len(recorded) > MAX_TRAIL_SIZE)
        => LET k == Len(recorded) - MAX_TRAIL_SIZE
           IN  /\ \A i \in 1 .. k : recorded[i] \notin trail
               /\ \A i \in k + 1 .. Len(recorded) : recorded[i] \in trail
               /\ trailQueue = SubSeq(recorded, k + 1, Len(recorded))

\* Two evictions of pairwise distinct positions have happened.
C6_Witness ==
    /\ Distinct(recorded)
    /\ Len(recorded) = MAX_TRAIL_SIZE + 2
    /\ recorded[1] \notin trail
    /\ recorded[2] \notin trail

\* The destination of the primary direction.
EastDest == Plus(myPos, getDirectionVector(primaryDirection))

\* C7 as claimed: when all four directions are invalid the tick is not
\* fatal: east is sent, the process keeps running, the destination of the
\* east move is in the trail after the record step, and control is back at
\* the head of the run loop.
C7_Claimed ==
    [][/\ (pc = "send" /\ ~AnyValid)
            => (lastMove' = "east" /\ pc' = "record" /\ exitStatus' = -1)
       /\ (pc = "record" /\ ~AnyValid)
            => (EastDest \in trail' /\ pc' = "loop" /\ exitStatus' = -1)]_vars

\* C8: a received game state that does not list the bot ends the process
\* with status 1; in that tick no move is sent and the trail, the queue and
\* the phase keep their values; nothing happens after the exit.
C8_NotFoundFatal ==
    [][/\ (pc = "update" /\ ~selfPresent')
            => /\ pc' = "exited"
               /\ exitStatus' = 1
               /\ nsent' = nsent
               /\ lastMove' = lastMove
               /\ trail' = trail
               /\ trailQueue' = trailQueue
               /\ recorded' = recorded
               /\ movingDown' = movingDown
       /\ pc = "exited" => UNCHANGED vars]_vars

\* The bot went missing after it had already played a tick.
C8_Witness ==
    /\ pc = "exited"
    /\ exitStatus = 1
    /\ ~selfPresent
    /\ nsent > 0
    /\ trail # {}

\* C9 as claimed: the run loop has stopped only in states where the last
\* answer of connection.isActive() was false.
C9_Claimed ==
    pc \in {"done", "exited"} => ~active

\* C9 as amended: the run loop stops either because connection.isActive()
\* returned false (run() returns, exit status 0) or because the received
\* game state did not list the bot (exception, exit status 1); otherwise
\* the process is running.
C9_Amended ==
    /\ pc = "done" => (~active /\ exitStatus = 0)
    /\ pc = "exited" => (~selfPresent /\ exitStatus = 1)
    /\ pc \notin {"done", "exited"} => (active /\ exitStatus = -1)

\* The loop stopped on the exception while the connection was active.
C9_Witness ==
    /\ pc = "exited"
    /\ active
    /\ nrecv > 1

\* C10: the steps of a tick come in the order receive, locate, send,
\* record.  Counting received states, states in which the bot was found,
\* sent moves and recorded positions: a move is sent only for a received
\* state that lists the bot, a position is recorded only after the move of
\* its tick was sent, and a new state is received only when every earlier
\* found state has had exactly one move sent and one position recorded.
C10_TickOrder ==
    /\ pc \in {"loop", "update", "done"}
         => (nrecv = nfound /\ nsent = nfound /\ Len(recorded) = nfound)
    /\ pc = "send"
         => (selfPresent /\ nrecv = nfound /\ nsent = nfound - 1
               /\ Len(recorded) = nfound - 1)
    /\ pc = "record"
         => (selfPresent /\ nrecv = nfound /\ nsent = nfound
               /\ Len(recorded) = nfound - 1)
    /\ pc = "exited"
         => (nrecv = nfound + 1 /\ nsent = nfound /\ Len(recorded) = nfound)

\* The move of the third tick is sent and its position not yet recorded.
C10_Witness ==
    /\ pc = "record"
    /\ nrecv = 3
    /\ nsent = 3
    /\ Len(recorded) = 2

\* C11 as claimed, in the game of SpecGame: once the game state that
\* follows a record has been received, every member of the trail is a
\* position the bot had in some received game state.
C11_Claimed ==
    pc \in {"send", "record"} => trail \subseteq seen

\* Range of a sequence.
Range(q) == {q[i] : i \in 1 .. Len(q)}

\* C12 as claimed: a position is a member of the trail set if and only if
\* it occurs in the order queue.
C12_Claimed ==
    trail = Range(trailQueue)

\* C13 as claimed: right after the record step (insertion, then capacity
\* eviction) the position just recorded is a member of the trail set.
C13_Claimed ==
    [][pc = "record"
         => Plus(myPos, getDirectionVector(lastMove)) \in trail']_vars

\* C14: the trail and the phase change only through their own rule.  Every
\* step but the record step (the loop condition, updateState, and the
\* decision with its isValidMove calls) leaves the trail set and the order
\* queue as they are; the record step leaves the phase as it is, appends
\* exactly one position and evicts at most one, the oldest, and only when
\* the queue has grown past MAX_TRAIL_SIZE; the trail is never emptied.
C14_Frame ==
    [][/\ pc # "record" => (trail' = trail /\ trailQueue' = trailQueue)
       /\ pc = "record"
            => LET newPos == Plus(myPos, getDirectionVector(lastMove))
                   pushed == Append(trailQueue, newPos)
               IN  /\ movingDown' = movingDown
                   /\ trailQueue' # <<>>
                   /\ trailQueue'[Len(trailQueue')] = newPos
                   /\ \/ /\ trailQueue' = pushed
                         /\ trail' = trail \cup {newPos}
                      \/ /\ Len(pushed) > MAX_TRAIL_SIZE
                         /\ trailQueue' = Tail(pushed)
                         /\ trail' = (trail \cup {newPos}) \ {Head(pushed)}]_vars

\* The first eviction has happened, in the north phase.
C14_Witness ==
    /\ pc = "loop"
    /\ ~movingDown
    /\ Len(recorded) = MAX_TRAIL_SIZE + 1
    /\ trailQueue = SubSeq(recorded, 2, MAX_TRAIL_SIZE + 1)

\* C15 as claimed: a conversion called with an invalid direction does not
\* return a value; it throws and the process ends with status 1.
C15_Claimed ==
    (pc \in {"converted", "exited"} /\ DirectionOfCode(convDir) \notin Direction)
        => (convOut.kind = "throw" /\ pc = "exited" /\ exitStatus = 1)

====
